---------------------------- MODULE Spec2Model ----------------------------
(***************************************************************************)
(* Vessel scrapers (MarineTraffic: selenium_scraper.py, VesselFinder:      *)
(* vesselfinder_scraper.py), their standalone runners and the job-trigger  *)
(* helpers, as a state machine of one invocation.                          *)
(*                                                                         *)
(* Python values are tagged tuples so that values of different Python      *)
(* types can be compared: <<"none">> is None, <<"str", s>> a string and    *)
(* <<"num", w, u>> the float w + u / 1000000 (w whole degrees / units, u   *)
(* millionths, both carrying the sign).                                    *)
(***************************************************************************)
EXTENDS Integers, Sequences, FiniteSets, TLC

VARIABLES
    scraper,    \* "MT" (SeleniumMarineTrafficScraper) or "VF" (VesselFinderScraper)
    entry,      \* "runner": started by the action-scraper main(); "direct": get_*_data called
    env,        \* environment / arguments of the invocation (fixed at Init)
    pc,         \* position of the invocation
    rec,        \* ship_data / vessel_data: field -> value
    flag,       \* ship_data['_coordinates_from_api'] (MarineTraffic only)
    writer,     \* history: evidence class of the extractor that last wrote each field
    nresp,      \* network responses processed so far by the network extractor
    driver,     \* "none", "open", "closed"
    logged_in,  \* VesselFinderScraper.logged_in
    navs,       \* history: pages the browser was asked to load
    lastThrew,  \* history: the step just taken caught an exception raised in an extractor
    skipped,    \* extractor kinds the last step left out by leaving their enclosing try block
    cause,      \* why the invocation raised ("" while it has not)
    events,     \* analytics events captured so far (sequence of event names)
    sinkOk,     \* outcome reported by the runner's analytics call: "unset", "true", "false"
    exitCode,   \* exit status of the runner: -1 while running
    trig,       \* state of a job-trigger call
    store       \* the ships table and the history of the store operations

vars == <<scraper, entry, env, pc, rec, flag, writer, nresp, driver, logged_in,
          navs, lastThrew, skipped, cause, events, sinkOk, exitCode, trig, store>>

scrapeVars == <<scraper, entry, env, pc, rec, flag, writer, nresp, driver, logged_in,
                navs, lastThrew, skipped, cause, events, sinkOk, exitCode>>

-----------------------------------------------------------------------------
(* Bounds *)

MaxResponses == 2      \* network responses examined in one invocation
MaxStores == 3         \* store operations (views and command runs) in one behaviour

-----------------------------------------------------------------------------
(* Python values *)

None == <<"none">>
Num(w, u) == <<"num", w, u>>
Str(s) == <<"str", s>>

Million == 1000000

IsNum(v) == v[1] = "num"
IsStr(v) == v[1] = "str"

\* Python truthiness: None, 0 / 0.0 and "" are falsy
Truthy(v) == v # None /\ v # Num(0, 0) /\ v # Str("")

AbsInt(n) == IF n < 0 THEN 0 - n ELSE n

\* abs(v) > 180
AbsGt180(v) == AbsInt(v[2]) > 180 \/ (AbsInt(v[2]) = 180 /\ v[3] # 0)

\* -90 <= v <= 90 and -180 <= v <= 180
InLatRange(v) == AbsInt(v[2]) < 90 \/ (AbsInt(v[2]) = 90 /\ v[3] = 0)
InLonRange(v) == ~AbsGt180(v)

\* v / 1000000.0 for a whole-number v (exact in the representation)
DivMillion(v) ==
    LET a == AbsInt(v[2])
        s == IF v[2] < 0 THEN 0 - 1 ELSE 1
    IN  Num(s * (a \div Million), s * (a % Million))

\* str.lower() on the strings of the model
Lower(s) ==
    CASE s = "Upgrade to unlock" -> "upgrade to unlock"
      [] s = "N/A" -> "n/a"
      [] s = "Unknown" -> "unknown"
      [] s = "EVER GIVEN" -> "ever given"
      [] s = "ROTTERDAM" -> "rotterdam"
      [] s = "Cargo" -> "cargo"
      [] s = "VesselFinder" -> "vesselfinder"
      [] OTHER -> s


-----------------------------------------------------------------------------
(* Evidence the page may offer.  Absent stands for "no such key / element / *)
(* match".  Each evidence class proposes its own values so that a          *)
(* conflicting proposal is always a different value.                       *)

Absent == <<"absent">>

\* identifiers the invocation is given
Mmsi == Str("123456789")
Imo == Str("9811000")

\* the identifiers as upstream sometimes delivers them: wrapped in double quotes
QuotedMmsi == Str("\"123456789\"")
QuotedImo == Str("\"9811000\"")

\* value.strip('"') on the identifiers of the model
StripQuotes(v) ==
    CASE v = QuotedMmsi -> Mmsi
      [] v = QuotedImo -> Imo
      [] OTHER -> v

\* an mmsi shown by the page
PageMmsi == Str("987654321")

Opt(S) == S \cup {Absent}

Fields == {"mmsi", "name", "type", "destination", "lat", "lon", "speed"}

\* captured network responses (JSON bodies)
NetPositions ==
    {[lat |-> Num(37, 500000), lon |-> Num(0 - 122, 0 - 400000), speed |-> Num(12, 300000)],
     [lat |-> Num(0, 0), lon |-> Num(0 - 122, 0 - 400000), speed |-> Num(0, 0)],
     [lat |-> Num(37500000, 0), lon |-> Num(0 - 122400000, 0), speed |-> Absent],
     [lat |-> Num(100, 0), lon |-> Absent, speed |-> Absent]}
\* position API fetched from within the page
ApiLat == Num(41, 0)
ApiLon == Num(2, 0)
\* JavaScript globals
JsLat == Num(16, 0)
JsLon == Num(17, 0)
\* data-* attributes
AttrLat == Num(14, 0)
AttrLon == Num(15, 0)
\* visible text
TextLat == Num(12, 500000)
TextLon == Num(13, 500000)
TextSpeed == Num(9, 0)
HeadingTexts == {"EVER GIVEN", "N/A", "Upgrade to unlock"}
TypeTexts == {"Cargo", "Upgrade to unlock"}
DestTexts == {"ROTTERDAM", "Upgrade to unlock", "-"}
\* JSON embedded in the page source
JsonLat == Num(55, 0)
JsonLon == Num(66, 0)
JsonSpeed == Num(7, 0)
JsonName == "unknown"
JsonDest == "unknown"

\* evidence classes, highest priority first (spec.md section 3)
Rank(c) ==
    CASE c = "net" -> 1
      [] c = "api" -> 2
      [] c = "js" -> 3
      [] c = "attr" -> 4
      [] c = "text" -> 5
      [] c = "json" -> 6
      [] OTHER -> 0

-----------------------------------------------------------------------------
(* The record under reconciliation: st.r is ship_data / vessel_data, st.fl *)
(* the key _coordinates_from_api, st.w who wrote each field last.          *)

St == [r |-> rec, w |-> writer, fl |-> flag]

\* ship_data[f] = v
Put(st, f, v, c) == [st EXCEPT !.r[f] = v, !.w[f] = c]

\* if not ship_data[f]: ship_data[f] = v
PutIfFalsy(st, f, v, c) == IF Truthy(st.r[f]) THEN st ELSE Put(st, f, v, c)

EmptyRecord == [f \in Fields |-> None]
NoWriter == [f \in Fields |-> "none"]

-----------------------------------------------------------------------------
(* MarineTraffic extractors (selenium_scraper.py) as functions of the      *)
(* record and of the evidence they are given.                              *)

\* _extract_ship_name: the first heading whose text is not rejected
ExtractShipName(st, t) ==
    IF t # Absent /\ t # Str("") /\ Lower(t[2]) \notin {"unknown", "n/a", "-"}
    THEN Put(st, "name", t, "text")
    ELSE st

\* _extract_coordinates_from_api_response on a dict
ApiResponse(st, data, c) ==
    LET s1 == IF data.lat # Absent
              THEN [Put(st, "lat", data.lat, c) EXCEPT !.fl = TRUE]
              ELSE st
        s2 == IF data.lon # Absent
              THEN [Put(s1, "lon", data.lon, c) EXCEPT !.fl = TRUE]
              ELSE s1
    IN  IF data.speed # Absent /\ ~Truthy(s2.r["speed"])
        THEN Put(s2, "speed", data.speed, c)
        ELSE s2

\* _parse_coordinate_text: a "lat, lon" pair found in a text
ParseCoordinateText(st, pair, c) ==
    IF pair # Absent /\ InLatRange(pair[1]) /\ InLonRange(pair[2]) /\ ~st.fl
    THEN PutIfFalsy(PutIfFalsy(st, "lat", pair[1], c), "lon", pair[2], c)
    ELSE st

\* a text value accepted unless empty or in the given placeholder list
Accepted(t, placeholders) ==
    t # Absent /\ t # Str("") /\ Lower(t[2]) \notin placeholders

\* _extract_from_all_text: "key: value" lines of the visible text
ExtractFromAllText(st, lines) ==
    LET ph == {"unknown", "n/a", "-", "upgrade to unlock"}
        s1 == IF Accepted(lines.type, ph) THEN PutIfFalsy(st, "type", lines.type, "text") ELSE st
        s2 == IF lines.lat # Absent THEN PutIfFalsy(s1, "lat", lines.lat, "text") ELSE s1
        s3 == IF lines.lon # Absent THEN PutIfFalsy(s2, "lon", lines.lon, "text") ELSE s2
    IN  IF Accepted(lines.destination, ph)
        THEN PutIfFalsy(s3, "destination", lines.destination, "text")
        ELSE s3

\* _extract_vessel_details: rows of the tables
ExtractVesselDetails(st, typ) ==
    IF Accepted(typ, {"unknown", "n/a", "-", ""}) THEN PutIfFalsy(st, "type", typ, "text") ELSE st

\* _extract_from_detail_sections / _parse_text_for_data
ParseTextForData(st, typ) ==
    IF Accepted(typ, {"unknown", "n/a", "-", ""}) THEN PutIfFalsy(st, "type", typ, "text") ELSE st

\* _extract_from_data_attributes: data-type, data-lat, data-lon, data-speed in turn
ExtractFromDataAttributes(st, a) ==
    LET s0 == IF a.mmsi # Absent THEN PutIfFalsy(st, "mmsi", a.mmsi, "attr") ELSE st
        s1 == IF a.type # Absent /\ a.type # Str("") THEN PutIfFalsy(s0, "type", a.type, "attr") ELSE s0
        s2 == IF a.lat # Absent THEN Put(s1, "lat", a.lat, "attr") ELSE s1
        s3 == IF a.lon # Absent THEN Put(s2, "lon", a.lon, "attr") ELSE s2
    IN  IF a.speed # Absent THEN PutIfFalsy(s3, "speed", a.speed, "attr") ELSE s3

\* _extract_position_data: the patterns applied to the visible text
ExtractPositionData(st, m) ==
    LET s1 == IF m.lat # Absent /\ ~Truthy(st.r["lat"]) /\ ~st.fl /\ InLatRange(m.lat)
              THEN Put(st, "lat", m.lat, "text") ELSE st
        s2 == IF m.lon # Absent /\ ~Truthy(s1.r["lon"]) /\ ~s1.fl /\ InLonRange(m.lon)
              THEN Put(s1, "lon", m.lon, "text") ELSE s1
    IN  IF m.speed # Absent THEN PutIfFalsy(s2, "speed", m.speed, "text") ELSE s2

\* _extract_from_position_elements: numeric text of .lat / .lon elements
ExtractFromPositionElements(st, e) ==
    LET s1 == IF e.lat # Absent THEN PutIfFalsy(st, "lat", e.lat, "text") ELSE st
    IN  IF e.lon # Absent THEN PutIfFalsy(s1, "lon", e.lon, "text") ELSE s1

\* _extract_coordinates_from_map: data-lat / data-lon of a marker, then its text
ExtractCoordinatesFromMap(st, e) ==
    LET s1 == IF e.lat # Absent THEN PutIfFalsy(st, "lat", e.lat, "attr") ELSE st
        s2 == IF e.lon # Absent THEN PutIfFalsy(s1, "lon", e.lon, "attr") ELSE s1
    IN  ParseCoordinateText(s2, e.text, "text")

\* _extract_coordinates_from_js: window.vesselLat, window.vesselLon, ...
ExtractCoordinatesFromJs(st, g) ==
    LET s1 == IF g.lat # Absent /\ Truthy(g.lat) THEN PutIfFalsy(st, "lat", g.lat, "js") ELSE st
    IN  IF g.lon # Absent /\ Truthy(g.lon) THEN PutIfFalsy(s1, "lon", g.lon, "js") ELSE s1

\* _extract_coordinates_from_source: "lat": ..., "lon": ... in the page source
ExtractCoordinatesFromSource(st, m) ==
    LET s1 == IF m.lat # Absent /\ InLatRange(m.lat) THEN PutIfFalsy(st, "lat", m.lat, "json") ELSE st
    IN  IF m.lon # Absent /\ InLonRange(m.lon) THEN PutIfFalsy(s1, "lon", m.lon, "json") ELSE s1

\* _extract_voyage_data: destination patterns on the visible text
ExtractVoyageData(st, dest) ==
    IF Accepted(dest, {"unknown", "n/a", "-", "upgrade to unlock"})
    THEN PutIfFalsy(st, "destination", dest, "text")
    ELSE st

\* _extract_from_voyage_elements: text of .destination elements
ExtractFromVoyageElements(st, dest) ==
    IF Accepted(dest, {"unknown", "n/a", "-", "upgrade to unlock", ""})
    THEN PutIfFalsy(st, "destination", dest, "text")
    ELSE st

\* _update_from_json: every mapped key present in the embedded JSON object
UpdateFromJson(st, j) ==
    LET Upd(s, f) == IF j[f] # Absent THEN PutIfFalsy(s, f, j[f], "json") ELSE s
    IN  Upd(Upd(Upd(Upd(Upd(Upd(Upd(st, "mmsi"), "name"), "type"), "lat"), "lon"), "speed"),
            "destination")

-----------------------------------------------------------------------------
(* VesselFinder extractors (vesselfinder_scraper.py).                      *)

\* float(value) if value else None, then the micro-degree rule
NormalizeCoordinate(value) ==
    LET v == IF Truthy(value) THEN value ELSE None
    IN  IF Truthy(v) /\ AbsGt180(v) THEN DivMillion(v) ELSE v

\* float(value) if value else None
FloatOrNone(value) == IF Truthy(value) THEN value ELSE None

\* float(value) on a text that is no number raises ValueError
FloatRaises(value) == IsStr(value) /\ Truthy(value)

\* _parse_api_response: the unguarded float(value) of the speed key raises; the
\* except clause of _parse_api_response logs it and the function returns
ParseApiResponseRaises(st, data) ==
    data["speed"] # Absent /\ ~Truthy(st.r["speed"]) /\ FloatRaises(data["speed"])

\* _parse_api_response on a dict: the keys in the order of the document; a raise
\* at the speed key ends the loop with the earlier assignments in place
ParseApiResponse(st, data, c) ==
    LET Txt(s, f) == IF data[f] # Absent THEN PutIfFalsy(s, f, data[f], c) ELSE s
        Coord(s, f) == IF data[f] # Absent
                       THEN PutIfFalsy(s, f, NormalizeCoordinate(data[f]), c)
                       ELSE s
        Flt(s, f) == IF data[f] # Absent THEN PutIfFalsy(s, f, FloatOrNone(data[f]), c) ELSE s
        upto == Coord(Coord(Txt(Txt(st, "name"), "type"), "lat"), "lon")
    IN  IF ParseApiResponseRaises(st, data) THEN upto
        ELSE Txt(Flt(upto, "speed"), "destination")

\* _extract_from_javascript: window.vessel ..., then the per-field globals
ExtractFromJavascript(st, g) ==
    LET s1 == ParseApiResponse(st, g.obj, "js")
        s2 == IF g.lat # Absent THEN PutIfFalsy(s1, "lat", g.lat, "js") ELSE s1
    IN  IF g.lon # Absent THEN PutIfFalsy(s2, "lon", g.lon, "js") ELSE s2

\* len(text) > 2 on the strings of the model
LongerThan2(s) == s \notin {"", "-"}

\* the vessel-name part of _extract_from_page_elements
PageName(st, t) ==
    IF /\ t # Absent /\ t # Str("") /\ LongerThan2(t[2])
       /\ Lower(t[2]) \notin {"vesselfinder", "vessel finder", "map"}
       /\ (~Truthy(st.r["name"]) \/ st.r["name"] = Str("VesselFinder"))
    THEN Put(st, "name", t, "text")
    ELSE st

\* _extract_from_page_elements: name, speed pattern, then the "label: value" elements
ExtractFromPageElements(st, e) ==
    LET s1 == PageName(st, e.heading)
        s2 == IF e.speed # Absent THEN PutIfFalsy(s1, "speed", e.speed, "text") ELSE s1
        s3 == IF e.type # Absent THEN PutIfFalsy(s2, "type", e.type, "text") ELSE s2
    IN  IF e.destination # Absent
        THEN PutIfFalsy(s3, "destination", e.destination, "text")
        ELSE s3

\* _extract_from_html: JSON objects of the script blocks, then coordinate patterns
ExtractFromHtml(st, h) ==
    LET s1 == ParseApiResponse(st, h.json, "json")
        s2 == IF h.lat # Absent /\ (~Truthy(s1.r["lat"]) \/ ~Truthy(s1.r["lon"]))
              THEN PutIfFalsy(s1, "lat", h.lat, "json") ELSE s1
    IN  IF h.lon # Absent /\ (~Truthy(s1.r["lat"]) \/ ~Truthy(s1.r["lon"]))
        THEN PutIfFalsy(s2, "lon", h.lon, "json") ELSE s2

-----------------------------------------------------------------------------
(* Evidence sets the actions draw from *)

Texts(S) == {Str(t) : t \in S}
NoPayload == [f \in Fields |-> Absent]

\* a source shows a position (lat and lon together) or none
Position(lat, lon) == {[NoPayload EXCEPT !["lat"] = lat, !["lon"] = lon], NoPayload}

\* JSON bodies of captured responses
NetPayloads ==
    {[NoPayload EXCEPT !["lat"] = p.lat, !["lon"] = p.lon, !["speed"] = p.speed] :
        p \in NetPositions} \cup {NoPayload}
\* a non-JSON body holding "lat, lon"
NetTextPair == <<Num(37, 500000), Num(0 - 122, 0 - 400000)>>
\* answer of the position API
ApiPayloads == Position(ApiLat, ApiLon)
AllTextLines ==
    {[p EXCEPT !["type"] = t] : p \in Position(TextLat, TextLon), t \in Opt({Str("Cargo")})}
AttrSpeed == Str("7.5")
AttrType == Str("N/A")
DataAttributes ==
    {[p EXCEPT !["mmsi"] = m, !["type"] = t, !["speed"] = v] :
        p \in Position(AttrLat, AttrLon), m \in Opt({PageMmsi}), t \in Opt({AttrType}),
        v \in Opt({AttrSpeed})}
TextMatches == {[p EXCEPT !["speed"] = v] : p \in Position(TextLat, TextLon), v \in Opt({TextSpeed})}
TextCoords == Position(TextLat, TextLon)
MapElements ==
    {[lat |-> p.lat, lon |-> p.lon, text |-> t] :
        p \in Position(AttrLat, AttrLon), t \in Opt({<<TextLat, TextLon>>})}
JsGlobals == Position(JsLat, JsLon)
SourceMatches == Position(JsonLat, JsonLon)
JsonObjects ==
    {[p EXCEPT !["mmsi"] = m, !["name"] = n, !["speed"] = v, !["destination"] = d] :
        p \in Position(JsonLat, JsonLon), m \in Opt({PageMmsi}), n \in Opt({Str(JsonName)}),
        v \in Opt({JsonSpeed}), d \in Opt({Str(JsonDest)})}

-----------------------------------------------------------------------------
(* Frames *)

\* JSON documents of captured responses: an object with its own keys and the
\* objects nested in its values. Besides the flat documents: the position inside
\* one enclosing object, beside a top-level lat, and two objects deep
NetDocuments(P) ==
    LET Flat(p) == [keys |-> p, nested |-> <<>>]
        deep == [NoPayload EXCEPT !["lat"] = Num(37, 500000),
                                  !["lon"] = Num(0 - 122, 0 - 400000)]
        top == [NoPayload EXCEPT !["lat"] = Num(100, 0)]
    IN  {Flat(p) : p \in P}
        \cup {[keys |-> NoPayload, nested |-> <<Flat(deep)>>],
              [keys |-> top, nested |-> <<Flat(deep)>>],
              [keys |-> NoPayload,
               nested |-> <<[keys |-> NoPayload, nested |-> <<Flat(deep)>>]>>]}

\* _extract_coordinates_from_api_response on an object: only the keys of the
\* object itself are read, its nested objects are not visited
ExtractCoordinatesFromApiResponse(st, doc, c) == ApiResponse(st, doc.keys, c)

\* _parse_api_response on an object: its own keys, then every nested object in
\* turn; an exception at the object's keys leaves before the nested objects, an
\* exception inside a nested call is caught by that call
RECURSIVE ParseApiResponseDeep(_, _, _)
ParseApiResponseDeep(st, doc, c) ==
    LET s1 == ParseApiResponse(st, doc.keys, c)
    IN  IF ParseApiResponseRaises(st, doc.keys) \/ doc.nested = <<>> THEN s1
        ELSE ParseApiResponseDeep(ParseApiResponseDeep(s1, Head(doc.nested), c),
                                  [keys |-> NoPayload, nested |-> Tail(doc.nested)], c)

Apply(st) == rec' = st.r /\ writer' = st.w /\ flag' = st.fl

\* what an extractor step leaves alone
ExtractorFrame ==
    UNCHANGED <<scraper, entry, env, driver, logged_in, navs, cause, events, sinkOk,
                exitCode, trig, store>>

\* an environment variable / argument is fixed the first time it is read
Read(k) == IF env[k] = "unread" THEN {"yes", "no"} ELSE {env[k]}

-----------------------------------------------------------------------------
(* MarineTraffic: github_action_scraper.main, get_ship_data_selenium,      *)
(* SeleniumMarineTrafficScraper.get_ship_details                           *)

\* a main that asks for an identifier only
MainProceedsWithIdentifier(s, e) == e.mmsi # None \/ e.imo # None

\* the checks of the two mains before the scrape. github_action_scraper: argparse
\* requires --mmsi, POSTHOG_API_KEY and the Datadocked variables of the enabled
\* fetch flags must be set (send_to_posthog is always True).
\* vesselfinder_action_scraper: --mmsi or --imo, and both credentials
MainProceeds(s, e) ==
    IF s = "MT"
    THEN e.mmsi # None /\ e.key = "yes" /\ e.ddvars = "yes"
    ELSE (e.mmsi # None \/ e.imo # None) /\ e.creds = "yes"

\* main, up to the call of get_ship_data_selenium: argparse exits with status 2
\* before any variable is read
MTMain ==
    /\ scraper = "MT" /\ pc = "main"
    /\ \E k \in Read("key"), v \in Read("ddvars") :
        LET e == IF env.mmsi = None THEN env ELSE [env EXCEPT !.key = k, !.ddvars = v]
            ok == MainProceeds("MT", e)
        IN  /\ env' = e
            /\ pc' = IF ok THEN "construct" ELSE "exited"
            /\ exitCode' = IF env.mmsi = None THEN 2 ELSE IF ok THEN exitCode ELSE 1
    /\ lastThrew' = FALSE
    /\ UNCHANGED <<scraper, entry, rec, flag, writer, nresp, driver, logged_in, navs,
                   cause, events, sinkOk, trig, store>>
    /\ skipped' = {}

\* SeleniumMarineTrafficScraper.__init__ / setup_driver
MTConstruct ==
    /\ scraper = "MT" /\ pc = "construct"
    /\ \E o \in {"ok", "no_chrome", "script_failed"} :
        /\ driver' = IF o = "no_chrome" THEN "none" ELSE "open"
        /\ pc' = IF o = "ok" THEN "load" ELSE "raised"
        /\ cause' = IF o = "ok" THEN cause ELSE "setup"
    /\ lastThrew' = FALSE
    /\ UNCHANGED <<scraper, entry, env, rec, flag, writer, nresp, logged_in, navs,
                   events, sinkOk, exitCode, trig, store>>
    /\ skipped' = {}

\* A page load whose failure would be swallowed
AfterLoadSwallowed(ok) == "name"

\* get_ship_details: an exception of driver.get(url) leaves the try block and is
\* raised again as Exception("Error scraping ship data: ...")
AfterLoad(ok) == IF ok THEN "name" ELSE "fail"

\* get_ship_details: driver.get(url) and the waits
MTLoadPage ==
    /\ scraper = "MT" /\ pc = "load"
    /\ navs' = navs \cup {"vessel"}
    /\ \E ok \in BOOLEAN :
        /\ pc' = AfterLoad(ok)
        /\ cause' = IF ok THEN cause ELSE "navigation"
    /\ lastThrew' = FALSE
    /\ UNCHANGED <<scraper, entry, env, rec, flag, writer, nresp, driver, logged_in,
                   events, sinkOk, exitCode, trig, store>>
    /\ skipped' = {}

\* _extract_ship_name: the first accepted heading is written and the loop left; an
\* exception can only come from an element lookup before that
MTExtractShipName ==
    /\ scraper = "MT" /\ pc = "name"
    /\ \E t \in Opt(Texts(HeadingTexts)), th \in BOOLEAN :
        /\ Apply(IF th THEN St ELSE ExtractShipName(St, t))
        /\ lastThrew' = th
    /\ pc' = "net"
    /\ UNCHANGED nresp
    /\ skipped' = {}
    /\ ExtractorFrame

\* a get_ship_details that runs the page extractors whatever the network gave
AfterNetworkIgnoringFlag(fl) == "alltext"

\* where get_ship_details goes after _extract_from_network_requests
AfterNetwork(fl) == IF fl THEN "html" ELSE "alltext"

\* _extract_from_network_requests: one captured JSON response
MTNetworkResponse ==
    /\ scraper = "MT" /\ pc = "net" /\ nresp < MaxResponses
    /\ \E doc \in NetDocuments(NetPayloads) :
        LET st == ExtractCoordinatesFromApiResponse(St, doc, "net")
            found == Truthy(st.r["lat"]) /\ Truthy(st.r["lon"])
        IN  /\ Apply(IF found THEN [st EXCEPT !.fl = TRUE] ELSE st)
            /\ pc' = IF found THEN AfterNetwork(TRUE) ELSE "net"
            /\ nresp' = IF found THEN 0 ELSE nresp + 1
    /\ lastThrew' = FALSE
    /\ skipped' = {}
    /\ ExtractorFrame

\* _extract_from_network_requests: one captured response that is not JSON
MTNetworkTextBody ==
    /\ scraper = "MT" /\ pc = "net" /\ nresp < MaxResponses
    /\ Apply(ParseCoordinateText(St, NetTextPair, "net"))
    /\ nresp' = nresp + 1
    /\ pc' = "net"
    /\ lastThrew' = FALSE
    /\ skipped' = {}
    /\ ExtractorFrame

\* _extract_from_network_requests: reading the performance log fails
MTNetworkLogFails ==
    /\ scraper = "MT" /\ pc = "net" /\ nresp = 0
    /\ lastThrew' = TRUE
    /\ skipped' = {"api"}
    /\ pc' = AfterNetwork(flag)
    /\ UNCHANGED <<rec, flag, writer, nresp>>
    /\ ExtractorFrame

\* _try_direct_api_calls, run when the loop over the log ends without returning.
\* Looking up the ship id can raise (th, nothing written yet); the fallback is the
\* handler of an exception of the in-page fetch: it loads the position URL, reads
\* the document shown, and loads the vessel page again
MTTryDirectApiCalls ==
    /\ scraper = "MT" /\ pc = "net"
    /\ \E data \in ApiPayloads, th \in BOOLEAN, fallback \in BOOLEAN :
        LET st == IF th /\ ~fallback THEN St ELSE ApiResponse(St, data, "api")
        IN  /\ fallback => th
            /\ Apply(st)
            /\ pc' = AfterNetwork(st.fl)
            /\ lastThrew' = th
            /\ navs' = IF fallback THEN navs \cup {"position_api", "vessel"} ELSE navs
    /\ UNCHANGED <<scraper, entry, env, driver, logged_in, cause, events, sinkOk,
                   exitCode, trig, store>>
    /\ nresp' = 0
    /\ skipped' = {}

\* _extract_from_all_text: only reading the body text can raise, before any line
\* is parsed
MTExtractFromAllText ==
    /\ scraper = "MT" /\ pc = "alltext"
    /\ \E lines \in AllTextLines, th \in BOOLEAN :
        /\ Apply(IF th THEN St ELSE ExtractFromAllText(St, lines))
        /\ lastThrew' = th
    /\ pc' = "tables"
    /\ UNCHANGED nresp
    /\ skipped' = {}
    /\ ExtractorFrame

\* _extract_vessel_details: an exception in the table loop leaves the try block
\* before _extract_from_detail_sections and _extract_from_data_attributes
MTExtractVesselDetails ==
    /\ scraper = "MT" /\ pc = "tables"
    /\ \E typ \in Opt(Texts(TypeTexts)), th \in BOOLEAN :
        /\ Apply(ExtractVesselDetails(St, typ))
        /\ lastThrew' = th
        /\ pc' = IF th THEN "position" ELSE "sections"
        /\ skipped' = IF th THEN {"text", "attr"} ELSE {}
    /\ UNCHANGED nresp
    /\ ExtractorFrame

MTExtractFromDetailSections ==
    /\ scraper = "MT" /\ pc = "sections"
    /\ \E typ \in Opt(Texts(TypeTexts)), th \in BOOLEAN :
        /\ Apply(ParseTextForData(St, typ))
        /\ lastThrew' = th
    /\ pc' = "attrs"
    /\ UNCHANGED nresp
    /\ skipped' = {}
    /\ ExtractorFrame

MTExtractFromDataAttributes ==
    /\ scraper = "MT" /\ pc = "attrs"
    /\ \E a \in DataAttributes, th \in BOOLEAN :
        /\ Apply(ExtractFromDataAttributes(St, a))
        /\ lastThrew' = th
    /\ pc' = "position"
    /\ UNCHANGED nresp
    /\ skipped' = {}
    /\ ExtractorFrame

\* _extract_position_data: an exception in its own part leaves the try block before
\* the position elements, the map, the JavaScript globals and the page source
MTExtractPositionData ==
    /\ scraper = "MT" /\ pc = "position"
    /\ \E m \in TextMatches, th \in BOOLEAN :
        /\ Apply(IF th THEN St ELSE ExtractPositionData(St, m))
        /\ lastThrew' = th
        /\ pc' = IF th THEN "voyage" ELSE "poselems"
        /\ skipped' = IF th THEN {"text", "attr", "js", "json"} ELSE {}
    /\ UNCHANGED nresp
    /\ ExtractorFrame

MTExtractFromPositionElements ==
    /\ scraper = "MT" /\ pc = "poselems"
    /\ \E e \in TextCoords, th \in BOOLEAN :
        /\ Apply(ExtractFromPositionElements(St, e))
        /\ lastThrew' = th
    /\ pc' = "map"
    /\ UNCHANGED nresp
    /\ skipped' = {}
    /\ ExtractorFrame

MTExtractCoordinatesFromMap ==
    /\ scraper = "MT" /\ pc = "map"
    /\ \E e \in MapElements :
        Apply(ExtractCoordinatesFromMap(St, e))
    /\ lastThrew' = FALSE
    /\ pc' = "js"
    /\ UNCHANGED nresp
    /\ skipped' = {}
    /\ ExtractorFrame

MTExtractCoordinatesFromJs ==
    /\ scraper = "MT" /\ pc = "js"
    /\ \E g \in JsGlobals, th \in BOOLEAN :
        /\ Apply(ExtractCoordinatesFromJs(St, g))
        /\ lastThrew' = th
    /\ pc' = "source"
    /\ UNCHANGED nresp
    /\ skipped' = {}
    /\ ExtractorFrame

\* _extract_coordinates_from_source: only reading driver.page_source can raise
MTExtractCoordinatesFromSource ==
    /\ scraper = "MT" /\ pc = "source"
    /\ \E m \in SourceMatches, th \in BOOLEAN :
        /\ Apply(IF th THEN St ELSE ExtractCoordinatesFromSource(St, m))
        /\ lastThrew' = th
    /\ pc' = "interact"
    /\ UNCHANGED nresp
    /\ skipped' = {}
    /\ ExtractorFrame

\* _interact_with_map: text of a tooltip / of the page after a marker click
MTInteractWithMap ==
    /\ scraper = "MT" /\ pc = "interact"
    /\ \E t \in Opt({<<TextLat, TextLon>>}), th \in BOOLEAN :
        /\ Apply(ParseCoordinateText(St, t, "text"))
        /\ lastThrew' = th
    /\ pc' = "voyage"
    /\ UNCHANGED nresp
    /\ skipped' = {}
    /\ ExtractorFrame

MTExtractVoyageData ==
    /\ scraper = "MT" /\ pc = "voyage"
    /\ \E d \in Opt(Texts(DestTexts)), th \in BOOLEAN :
        /\ Apply(IF th THEN St ELSE ExtractVoyageData(St, d))
        /\ lastThrew' = th
        /\ pc' = IF th THEN "html" ELSE "voyelems"
        /\ skipped' = IF th THEN {"text"} ELSE {}
    /\ UNCHANGED nresp
    /\ ExtractorFrame

MTExtractFromVoyageElements ==
    /\ scraper = "MT" /\ pc = "voyelems"
    /\ \E d \in Opt(Texts(DestTexts)), th \in BOOLEAN :
        /\ Apply(ExtractFromVoyageElements(St, d))
        /\ lastThrew' = th
    /\ pc' = "html"
    /\ UNCHANGED nresp
    /\ skipped' = {}
    /\ ExtractorFrame

\* get_ship_details: reading driver.page_source fails (outside every extractor)
MTPageSourceFails ==
    /\ scraper = "MT" /\ pc = "html"
    /\ pc' = "fail"
    /\ cause' = "page_source"
    /\ lastThrew' = FALSE
    /\ UNCHANGED <<scraper, entry, env, rec, flag, writer, nresp, driver, logged_in, navs,
                   events, sinkOk, exitCode, trig, store>>
    /\ skipped' = {}

\* _extract_from_html, then the internal flag is deleted and the record returned
MTExtractFromHtml ==
    /\ scraper = "MT" /\ pc = "html"
    /\ \E j \in JsonObjects, th \in BOOLEAN :
        /\ Apply([UpdateFromJson(St, j) EXCEPT !.fl = FALSE])
        /\ lastThrew' = th
    /\ pc' = "posthog"
    /\ UNCHANGED nresp
    /\ skipped' = {}
    /\ ExtractorFrame


\* get_ship_data_selenium: scraper.send_to_posthog when the caller asked for it
\* (github_action_scraper.main passes send_to_posthog=False)
MTSendToPosthog ==
    /\ scraper = "MT" /\ pc = "posthog"
    /\ \E send \in (IF entry = "runner" THEN {"no"} ELSE {"yes", "no"}),
          k \in Read("key"), ok \in BOOLEAN :
        /\ env' = IF send = "yes" THEN [env EXCEPT !.key = k] ELSE env
        /\ events' = IF send = "yes" /\ k = "yes" /\ ok
                     THEN Append(events, "marine_traffic_scrape") ELSE events
        /\ sinkOk' = IF send = "no" THEN sinkOk
                     ELSE IF k = "yes" /\ ok THEN "true" ELSE "false"
    /\ pc' = "close"
    /\ lastThrew' = FALSE
    /\ UNCHANGED <<scraper, entry, rec, flag, writer, nresp, driver, logged_in, navs,
                   cause, exitCode, trig, store>>
    /\ skipped' = {}

\* finally: scraper.close() (get_ship_data_selenium) / __exit__ (get_vessel_data)
Close ==
    /\ pc \in {"close", "fail"}
    /\ driver' = "closed"
    /\ pc' = IF pc = "close" THEN "returned" ELSE "raised"
    /\ lastThrew' = FALSE
    /\ UNCHANGED <<scraper, entry, env, rec, flag, writer, nresp, logged_in, navs,
                   cause, events, sinkOk, exitCode, trig, store>>
    /\ skipped' = {}

\* A document of the secondary API: the keys has_valid_data and
\* fetch_datadocked_data read
NoDoc == [mmsi |-> Absent, latitude |-> Absent, longitude |-> Absent]
FullDoc == [mmsi |-> Mmsi, latitude |-> Num(51, 900000), longitude |-> Num(4, 100000)]

\* what requests.get(...get-vessel-location) gave: the status and the JSON body;
\* detail is "absent" (no such key), "object" (inner holds its keys) or "string"
DdResponses ==
    {[status |-> 404, detail |-> "absent", inner |-> NoDoc, top |-> FullDoc],
     [status |-> 200, detail |-> "absent", inner |-> NoDoc, top |-> NoDoc],
     [status |-> 200, detail |-> "absent", inner |-> NoDoc, top |-> FullDoc],
     [status |-> 200, detail |-> "absent", inner |-> NoDoc,
      top |-> [FullDoc EXCEPT !.longitude = Absent]],
     [status |-> 200, detail |-> "absent", inner |-> NoDoc,
      top |-> [FullDoc EXCEPT !.latitude = Num(0, 0)]],
     [status |-> 200, detail |-> "object", inner |-> FullDoc, top |-> NoDoc],
     [status |-> 200, detail |-> "object", inner |-> [NoDoc EXCEPT !.mmsi = Mmsi],
      top |-> NoDoc],
     [status |-> 200, detail |-> "object", inner |-> NoDoc, top |-> FullDoc],
     [status |-> 200, detail |-> "string", inner |-> NoDoc, top |-> NoDoc]}

\* no request made (--fetch-datadocked not given), or the request raised
NotFetched == [status |-> 0, detail |-> "absent", inner |-> NoDoc, top |-> NoDoc]

\* dict.get(key): None when the key is absent
Get(v) == IF v = Absent THEN None ELSE v

\* response_json.get("detail") is truthy: a non-empty string or a non-empty dict
DetailTruthy(resp) ==
    resp.detail = "string" \/ (resp.detail = "object" /\ resp.inner # NoDoc)

\* fetch_datadocked_data: the response it returns, NotFetched for None
FetchDatadockedData(resp) ==
    IF /\ resp.status = 200
       /\ (resp.detail # "absent" \/ resp.top # NoDoc)
       /\ \/ DetailTruthy(resp)
          \/ /\ Truthy(Get(resp.top.mmsi))
             /\ Truthy(Get(resp.top.latitude))
             /\ Truthy(Get(resp.top.longitude))
    THEN resp
    ELSE NotFetched

\* datadocked_data.get("detail", datadocked_data), when that is a dict
DdDetail(data) == IF data.detail = "object" THEN data.inner ELSE data.top

\* a has_valid_data that stops after `if not data`
HasValidDataNonEmpty(d) == d # NoDoc

\* has_valid_data on a dict: lat is data.get("latitude") or data.get("lat"), so a
\* falsy latitude counts as none (the documents of the model have no "lat" key)
HasValidData(d) ==
    /\ d # NoDoc
    /\ Get(d.mmsi) # None
    /\ Truthy(Get(d.latitude))
    /\ Truthy(Get(d.longitude))

\* the event push_all_data_to_posthog sends for the secondary source
DdEvent == "local_comparison:datadocked"

\* github_action_scraper.main after the scrape: fetch_datadocked_data when
\* --fetch-datadocked was given
MTRunnerFetch ==
    /\ scraper = "MT" /\ entry = "runner" /\ pc = "returned"
    /\ \E fetch \in BOOLEAN, resp \in DdResponses :
        env' = [env EXCEPT !.dd = IF fetch THEN resp ELSE NotFetched]
    /\ pc' = "push"
    /\ lastThrew' = FALSE
    /\ UNCHANGED <<scraper, entry, rec, flag, writer, nresp, driver, logged_in, navs,
                   cause, events, sinkOk, exitCode, trig, store>>
    /\ skipped' = {}

\* push_all_data_to_posthog: the scraped record, then the secondary data if
\* has_valid_data accepts it; has_valid_data raises on a "detail" that is no dict
MTRunnerPush ==
    /\ scraper = "MT" /\ pc = "push"
    /\ \E ok \in BOOLEAN, okdd \in BOOLEAN :
        LET data == FetchDatadockedData(env.dd)
            raises == data # NotFetched /\ data.detail = "string"
            forward == /\ data # NotFetched /\ ~raises
                       /\ HasValidData(DdDetail(data)) /\ okdd
            mine == IF ok THEN Append(events, "local_comparison") ELSE events
        IN  /\ events' = IF forward THEN Append(mine, DdEvent) ELSE mine
            /\ sinkOk' = IF ok THEN "true" ELSE "false"
            /\ pc' = IF raises THEN "exited" ELSE "output"
            /\ exitCode' = IF raises THEN 1 ELSE exitCode
            /\ cause' = IF raises THEN "secondary_data" ELSE cause
    /\ lastThrew' = FALSE
    /\ UNCHANGED <<scraper, entry, env, rec, flag, writer, nresp, driver, logged_in, navs,
                   trig, store>>
    /\ skipped' = {}

\* github_action_scraper.main: the summary written to $GITHUB_OUTPUT, then the end
\* of main (exit status 0); a missing GITHUB_OUTPUT raises KeyError
MTRunnerOutput ==
    /\ scraper = "MT" /\ pc = "output"
    /\ \E github_output \in BOOLEAN :
        /\ exitCode' = IF github_output THEN 0 ELSE 1
        /\ cause' = IF github_output THEN cause ELSE "github_output"
    /\ pc' = "exited"
    /\ lastThrew' = FALSE
    /\ UNCHANGED <<scraper, entry, env, rec, flag, writer, nresp, driver, logged_in, navs,
                   events, sinkOk, trig, store>>
    /\ skipped' = {}

\* main: except Exception: sys.exit(1)
RunnerExcept ==
    /\ entry = "runner" /\ pc = "raised"
    /\ exitCode' = 1
    /\ pc' = "exited"
    /\ lastThrew' = FALSE
    /\ UNCHANGED <<scraper, entry, env, rec, flag, writer, nresp, driver, logged_in, navs,
                   cause, events, sinkOk, trig, store>>
    /\ skipped' = {}

-----------------------------------------------------------------------------
(* VesselFinder: vesselfinder_action_scraper.main, get_vessel_data,        *)
(* VesselFinderScraper.get_vessel_details                                  *)

VFNetPayloads ==
    {[NoPayload EXCEPT !["lat"] = p.lat, !["lon"] = p.lon, !["speed"] = p.speed,
                       !["name"] = n] :
        p \in NetPositions, n \in Opt({Str("VesselFinder")})} \cup {NoPayload}
    \cup {[NoPayload EXCEPT !["name"] = Str("VesselFinder"), !["speed"] = Str("fast"),
                            !["destination"] = Str("ROTTERDAM")]}
VFJsGlobals ==
    {[obj |-> o, lat |-> p.lat, lon |-> p.lon] :
        o \in Position(JsLat, JsLon), p \in Position(JsLat, JsLon)}
VFPageElements ==
    {[heading |-> h, speed |-> v, type |-> t, destination |-> d] :
        h \in Opt(Texts(HeadingTexts)), v \in Opt({TextSpeed}),
        t \in Opt({Str("Cargo")}), d \in Opt(Texts(DestTexts))}
VFHtml ==
    {[json |-> [NoPayload EXCEPT !["speed"] = v, !["destination"] = d],
      lat |-> p.lat, lon |-> p.lon] :
        v \in Opt({JsonSpeed}), d \in Opt({Str(JsonDest)}), p \in Position(JsonLat, JsonLon)}

\* main, up to the call of get_vessel_data: a missing POSTHOG_API_KEY is only
\* logged
VFMain ==
    /\ scraper = "VF" /\ pc = "main"
    /\ \E c \in Read("creds") :
        LET e == IF env.mmsi = None /\ env.imo = None THEN env
                 ELSE [env EXCEPT !.creds = c]
            ok == MainProceeds("VF", e)
        IN  /\ env' = e
            /\ pc' = IF ok THEN "construct" ELSE "exited"
            /\ exitCode' = IF ok THEN exitCode ELSE 1
    /\ lastThrew' = FALSE
    /\ UNCHANGED <<scraper, entry, rec, flag, writer, nresp, driver, logged_in, navs,
                   cause, events, sinkOk, trig, store>>
    /\ skipped' = {}

\* VesselFinderScraper.__init__ / setup_driver (main has checked the credentials)
VFConstruct ==
    /\ scraper = "VF" /\ pc = "construct"
    /\ \E o \in {"ok", "no_chrome", "script_failed"} \cup
               (IF entry = "direct" THEN {"no_credentials"} ELSE {}) :
        /\ driver' = IF o \in {"no_chrome", "no_credentials"} THEN "none" ELSE "open"
        /\ pc' = IF o = "ok" THEN "login" ELSE "raised"
        /\ cause' = IF o = "ok" THEN cause
                    ELSE IF o = "no_credentials" THEN "credentials" ELSE "setup"
    /\ lastThrew' = FALSE
    /\ UNCHANGED <<scraper, entry, env, rec, flag, writer, nresp, logged_in, navs,
                   events, sinkOk, exitCode, trig, store>>
    /\ skipped' = {}

\* a login() without the early return: the form is submitted again
LoginAgain(li, n, ok) ==
    [returns |-> ok, logged_in |-> ok, navs |-> n \cup {"login"}]

\* VesselFinderScraper.login: True at once when already logged in, else the login
\* page is loaded and the form submitted; every failure returns False
Login(li, n, ok) ==
    IF li
    THEN [returns |-> TRUE, logged_in |-> TRUE, navs |-> n]
    ELSE [returns |-> ok, logged_in |-> ok, navs |-> n \cup {"login"}]

\* login() called by the owner of the scraper object before get_vessel_details
VFOwnerLogin ==
    /\ scraper = "VF" /\ entry = "direct" /\ pc = "login"
    /\ \E ok \in BOOLEAN :
        LET l == Login(logged_in, navs, ok)
        IN  logged_in' = l.logged_in /\ navs' = l.navs
    /\ lastThrew' = FALSE
    /\ UNCHANGED <<scraper, entry, env, pc, rec, flag, writer, nresp, driver, cause,
                   events, sinkOk, exitCode, trig, store>>
    /\ skipped' = {}

\* get_vessel_details: if not self.logged_in: if not self.login(): raise
VFLogin ==
    /\ scraper = "VF" /\ pc = "login"
    /\ \E ok \in BOOLEAN :
        LET l == IF logged_in
                 THEN [returns |-> TRUE, logged_in |-> TRUE, navs |-> navs]
                 ELSE Login(logged_in, navs, ok)
        IN  /\ logged_in' = l.logged_in
            /\ navs' = l.navs
            /\ pc' = IF l.returns THEN "ids" ELSE "fail"
            /\ cause' = IF l.returns THEN cause ELSE "login"
    /\ lastThrew' = FALSE
    /\ UNCHANGED <<scraper, entry, env, rec, flag, writer, nresp, driver,
                   events, sinkOk, exitCode, trig, store>>
    /\ skipped' = {}

\* get_vessel_details: the URL is built from mmsi, else imo, else ValueError
VFCheckIdentifier ==
    /\ scraper = "VF" /\ pc = "ids"
    /\ pc' = IF env.mmsi # None \/ env.imo # None THEN "load" ELSE "fail"
    /\ cause' = IF env.mmsi # None \/ env.imo # None THEN cause ELSE "no_identifier"
    /\ lastThrew' = FALSE
    /\ UNCHANGED <<scraper, entry, env, rec, flag, writer, nresp, driver, logged_in, navs,
                   events, sinkOk, exitCode, trig, store>>
    /\ skipped' = {}

VFLoadPage ==
    /\ scraper = "VF" /\ pc = "load"
    /\ navs' = navs \cup {"vessel"}
    /\ \E ok \in BOOLEAN :
        /\ pc' = IF ok THEN "net" ELSE "handler"
        /\ cause' = IF ok THEN cause ELSE "navigation"
    /\ lastThrew' = FALSE
    /\ UNCHANGED <<scraper, entry, env, rec, flag, writer, nresp, driver, logged_in,
                   events, sinkOk, exitCode, trig, store>>
    /\ skipped' = {}

\* _extract_from_network_requests: one captured JSON response
VFNetworkResponse ==
    /\ scraper = "VF" /\ pc = "net" /\ nresp < MaxResponses
    /\ \E doc \in NetDocuments(VFNetPayloads) :
        /\ Apply(ParseApiResponseDeep(St, doc, "net"))
        /\ lastThrew' = ParseApiResponseRaises(St, doc.keys)
    /\ nresp' = nresp + 1
    /\ pc' = "net"
    /\ skipped' = {}
    /\ ExtractorFrame

\* _extract_from_network_requests ends (log exhausted, or reading it raised)
VFNetworkEnd ==
    /\ scraper = "VF" /\ pc = "net"
    /\ \E th \in BOOLEAN : lastThrew' = th
    /\ pc' = "js"
    /\ nresp' = 0
    /\ skipped' = {}
    /\ UNCHANGED <<rec, flag, writer>>
    /\ ExtractorFrame

VFExtractFromJavascript ==
    /\ scraper = "VF" /\ pc = "js"
    /\ \E g \in VFJsGlobals, th \in BOOLEAN :
        /\ Apply(ExtractFromJavascript(St, g))
        /\ lastThrew' = th
    /\ pc' = "page"
    /\ UNCHANGED nresp
    /\ skipped' = {}
    /\ ExtractorFrame

VFExtractFromPageElements ==
    /\ scraper = "VF" /\ pc = "page"
    /\ \E e \in VFPageElements, th \in BOOLEAN :
        /\ Apply(ExtractFromPageElements(St, e))
        /\ lastThrew' = th
    /\ pc' = "html"
    /\ UNCHANGED nresp
    /\ skipped' = {}
    /\ ExtractorFrame

\* get_vessel_details: reading driver.page_source fails (outside every extractor)
VFPageSourceFails ==
    /\ scraper = "VF" /\ pc = "html"
    /\ pc' = "handler"
    /\ cause' = "page_source"
    /\ lastThrew' = FALSE
    /\ UNCHANGED <<scraper, entry, env, rec, flag, writer, nresp, driver, logged_in, navs,
                   events, sinkOk, exitCode, trig, store>>
    /\ skipped' = {}

VFExtractFromHtml ==
    /\ scraper = "VF" /\ pc = "html"
    /\ \E h \in VFHtml, th \in BOOLEAN :
        /\ Apply(ExtractFromHtml(St, h))
        /\ lastThrew' = th
    /\ pc' = "capture"
    /\ UNCHANGED nresp
    /\ skipped' = {}
    /\ ExtractorFrame

\* get_vessel_details: posthog.capture('vessel_data_scraped') inside the try block
VFCaptureScraped ==
    /\ scraper = "VF" /\ pc = "capture"
    /\ \E k \in Read("key"), ok \in BOOLEAN :
        /\ env' = [env EXCEPT !.key = k]
        /\ events' = IF k = "yes" /\ ok THEN Append(events, "vessel_data_scraped") ELSE events
        /\ pc' = IF k = "yes" /\ ~ok THEN "handler" ELSE "send"
        /\ cause' = IF k = "yes" /\ ~ok THEN "sink" ELSE cause
    /\ lastThrew' = FALSE
    /\ UNCHANGED <<scraper, entry, rec, flag, writer, nresp, driver, logged_in, navs,
                   sinkOk, exitCode, trig, store>>
    /\ skipped' = {}

\* get_vessel_details: _send_to_posthog when a comparison_id was given; it catches
\* every exception and returns None
VFSendToPosthog ==
    /\ scraper = "VF" /\ pc = "send"
    /\ \E c \in Read("cid"), ok \in BOOLEAN :
        /\ env' = [env EXCEPT !.cid = c]
        /\ events' = IF c = "yes" /\ env.key = "yes" /\ ok
                     THEN Append(events, "local_comparison") ELSE events
    /\ pc' = "close"
    /\ lastThrew' = FALSE
    /\ UNCHANGED <<scraper, entry, rec, flag, writer, nresp, driver, logged_in, navs,
                   cause, sinkOk, exitCode, trig, store>>
    /\ skipped' = {}

\* get_vessel_details: except Exception: capture('vessel_data_scrape_failed'), raise
VFHandler ==
    /\ scraper = "VF" /\ pc = "handler"
    /\ \E k \in Read("key"), ok \in BOOLEAN :
        /\ env' = [env EXCEPT !.key = k]
        /\ events' = IF k = "yes" /\ ok
                     THEN Append(events, "vessel_data_scrape_failed") ELSE events
    /\ pc' = "fail"
    /\ lastThrew' = FALSE
    /\ UNCHANGED <<scraper, entry, rec, flag, writer, nresp, driver, logged_in, navs,
                   cause, sinkOk, exitCode, trig, store>>
    /\ skipped' = {}

\* vesselfinder_action_scraper.main after the scrape: send_to_posthog when a
\* comparison id was given, then sys.exit(0)
VFRunnerSink ==
    /\ scraper = "VF" /\ entry = "runner" /\ pc = "returned"
    /\ \E ok \in BOOLEAN :
        /\ events' = IF env.cid = "yes" /\ env.key = "yes" /\ ok
                     THEN Append(events, "local_comparison") ELSE events
        /\ sinkOk' = IF env.cid # "yes" THEN sinkOk
                     ELSE IF env.key = "yes" /\ ok THEN "true" ELSE "false"
    /\ exitCode' = 0
    /\ pc' = "exited"
    /\ lastThrew' = FALSE
    /\ UNCHANGED <<scraper, entry, env, rec, flag, writer, nresp, driver, logged_in, navs,
                   cause, trig, store>>
    /\ skipped' = {}

-----------------------------------------------------------------------------
(* The job triggers: django_github_integration.py,                         *)
(* trigger_multi_provider_action.py, trigger_github_action.py              *)

Statuses == {200, 201, 202, 204, 401, 404, 422, 500}
Bodies == {"", "bad mmsi", "Not Found"}
Providers == {"marinetraffic", "VesselFinder", "other"}

\* requests.post: a response, a timeout, another exception, or an endpoint that
\* accepts the connection and never answers
PostOutcomes ==
    {[kind |-> "response", status |-> s, body |-> b] : s \in Statuses, b \in Bodies}
    \cup {[kind |-> "timeout", status |-> 0, body |-> ""],
          [kind |-> "error", status |-> 0, body |-> ""],
          [kind |-> "silent", status |-> 0, body |-> ""]}
NoRequest == [kind |-> "none", status |-> 0, body |-> ""]

\* a trigger that takes every 2xx answer for success
IsNoContentAny2xx(status) == status \div 100 = 2

\* if response.status_code == 204
IsNoContent(status) == status = 204

\* only MarineTrafficScraperTrigger.trigger_scraper passes timeout=30 to
\* requests.post; the two command-line triggers pass none
HasTimeout(fn) == fn = "django"

IdleTrigger ==
    [fn |-> "", phase |-> "idle", post |-> NoRequest, success |-> FALSE,
     message |-> "", details |-> "", raised |-> FALSE,
     mmsi |-> FALSE, imo |-> FALSE, sent |-> <<>>, results |-> <<>>, exit |-> -1]

\* the result of a trigger call given what requests.post did
TriggerResult(fn, o, success, message, details) ==
    [IdleTrigger EXCEPT !.fn = fn, !.phase = "done", !.post = o, !.success = success,
                        !.message = message, !.details = details]

\* a call of requests.post with no timeout on an endpoint that never answers
\* does not return
Blocked(fn, o, sent) ==
    [IdleTrigger EXCEPT !.fn = fn, !.phase = "blocked", !.post = o, !.sent = sent]

\* MarineTrafficScraperTrigger.trigger_scraper
DjangoTriggerScraper ==
    /\ trig.phase = "idle"
    /\ \E configured \in BOOLEAN, o \in PostOutcomes :
        LET sent == <<"scrape-marine-traffic">>
        IN  trig' =
                IF ~configured
                THEN TriggerResult("django", NoRequest, FALSE, "GitHub configuration missing", "")
                ELSE IF o.kind = "silent" /\ ~HasTimeout("django")
                THEN Blocked("django", o, sent)
                ELSE [(IF o.kind = "response" /\ IsNoContent(o.status)
                       THEN TriggerResult("django", o, TRUE, "Scraper triggered successfully", "")
                       ELSE IF o.kind = "response"
                       THEN TriggerResult("django", o, FALSE, "GitHub API error", o.body)
                       ELSE IF o.kind \in {"timeout", "silent"}
                       THEN TriggerResult("django", o, FALSE, "Request timeout", "")
                       ELSE TriggerResult("django", o, FALSE, "Error", ""))
                      EXCEPT !.sent = sent]
    /\ UNCHANGED <<scrapeVars, store>>

\* a trigger_scraper that posts for every provider name
ValidRequestAnyProvider(p, mmsi, imo) == mmsi \/ imo

\* trigger_scraper: the provider and identifier checks before the request is built
ValidRequest(p, mmsi, imo) ==
    \/ p = "marinetraffic" /\ mmsi
    \/ p = "vesselfinder" /\ (mmsi \/ imo)

\* trigger_scraper: event_type of the payload
EventType(p) ==
    IF p = "marinetraffic" THEN "scrape-marine-traffic"
    ELSE IF p = "vesselfinder" THEN "scrape-vesselfinder"
    ELSE "none"

\* one call of trigger_multi_provider_action.trigger_scraper: what it posts and
\* what it returns
TriggerScraperCall(provider, mmsi, imo, o) ==
    LET p == Lower(provider)
    IN  IF ~ValidRequest(p, mmsi, imo)
        THEN [returns |-> TRUE, ok |-> FALSE, post |-> NoRequest, sent |-> <<>>]
        ELSE [returns |-> o.kind # "silent" \/ HasTimeout("multi"),
              ok |-> o.kind = "response" /\ IsNoContent(o.status),
              post |-> o, sent |-> <<EventType(p)>>]

\* trigger_multi_provider_action.trigger_scraper
MultiTriggerScraper ==
    /\ trig.phase = "idle"
    /\ \E provider \in Providers, mmsi \in BOOLEAN, imo \in BOOLEAN, o \in PostOutcomes :
        LET c == TriggerScraperCall(provider, mmsi, imo, o)
        IN  trig' = IF c.returns
                    THEN [TriggerResult("multi", c.post, c.ok, Lower(provider), "")
                            EXCEPT !.sent = c.sent, !.mmsi = mmsi, !.imo = imo]
                    ELSE [Blocked("multi", c.post, c.sent)
                            EXCEPT !.message = Lower(provider), !.mmsi = mmsi, !.imo = imo]
    /\ UNCHANGED <<scrapeVars, store>>

\* trigger_github_action.trigger_marine_traffic_scraper
TriggerMarineTrafficScraper ==
    /\ trig.phase = "idle"
    /\ \E o \in PostOutcomes :
        trig' = IF o.kind = "silent" /\ ~HasTimeout("single")
                THEN Blocked("single", o, <<"scrape-marine-traffic">>)
                ELSE [TriggerResult("single", o,
                         o.kind = "response" /\ IsNoContent(o.status), "", "")
                      EXCEPT !.sent = <<"scrape-marine-traffic">>]
    /\ UNCHANGED <<scrapeVars, store>>

\* a main that is content with one provider triggered
MainExitCodeAny(first, second) == IF first \/ second THEN 0 ELSE 1

\* trigger_multi_provider_action.main: if not all(results.values()): exit(1)
MainExitCode(first, second) == IF first /\ second THEN 0 ELSE 1

\* trigger_all_providers: results['marinetraffic'] = trigger_scraper(...)
TriggerAllFirst ==
    /\ trig.phase = "idle"
    /\ \E mmsi \in BOOLEAN, o \in PostOutcomes :
        LET c == TriggerScraperCall("marinetraffic", mmsi, FALSE, o)
        IN  trig' = IF c.returns
                    THEN [IdleTrigger EXCEPT !.fn = "all", !.phase = "second",
                             !.post = c.post, !.mmsi = mmsi, !.sent = c.sent,
                             !.results = <<<<"marinetraffic", c.ok>>>>]
                    ELSE Blocked("all", c.post, c.sent)
    /\ UNCHANGED <<scrapeVars, store>>

\* trigger_all_providers: results['vesselfinder'] = trigger_scraper(...), the
\* summary, return results
TriggerAllSecond ==
    /\ trig.phase = "second"
    /\ \E o \in PostOutcomes :
        LET c == TriggerScraperCall("vesselfinder", trig.mmsi, FALSE, o)
        IN  trig' = IF c.returns
                    THEN [trig EXCEPT !.phase = "summary", !.post = c.post,
                             !.sent = trig.sent \o c.sent,
                             !.results = Append(trig.results, <<"vesselfinder", c.ok>>)]
                    ELSE [trig EXCEPT !.phase = "blocked", !.post = c.post,
                             !.sent = trig.sent \o c.sent]
    /\ UNCHANGED <<scrapeVars, store>>

\* trigger_multi_provider_action.main with --provider all (it asks for --mmsi
\* first): exit status from the results
MultiMainExit ==
    /\ trig.phase = "summary" /\ trig.mmsi
    /\ trig' = [trig EXCEPT !.phase = "exited",
                   !.exit = MainExitCode(trig.results[1][2], trig.results[2][2])]
    /\ UNCHANGED <<scrapeVars, store>>

-----------------------------------------------------------------------------
(* Persistence: django_integration.py (Ship, ShipDataView.post, the         *)
(* scrape_ship command)                                                    *)

\* the ships table (rows with their primary key), the number of get_ship_data
\* calls, and the last operation
EmptyStore ==
    [rows |-> {}, ops |-> 0, scrapes |-> 0,
     last |-> [op |-> "", mmsi |-> "", force |-> FALSE, data |-> "", stored |-> FALSE]]

\* get_ship_data(mmsi) of the module marine_traffic_scraper: a record, or an
\* exception
ShipDataOutcomes == {"first reading", "second reading", "raises"}

\* a store that inserts a row whatever the table holds
CreateRow(rows, id, mmsi, data) == rows \cup {[id |-> id, mmsi |-> mmsi, data |-> data]}

\* Ship.objects.update_or_create(mmsi=mmsi, defaults={...})
UpdateOrCreate(rows, id, mmsi, data) ==
    IF \E r \in rows : r.mmsi = mmsi
    THEN {IF r.mmsi = mmsi THEN [r EXCEPT !.data = data] ELSE r : r \in rows}
    ELSE rows \cup {[id |-> id, mmsi |-> mmsi, data |-> data]}

\* ShipDataView.post: 400 without mmsi, else scrape and store; an exception of
\* the scrape gives 500
ShipDataViewPost ==
    /\ store.ops < MaxStores
    /\ \E mmsi \in {"", "123456789", "987654321"}, d \in ShipDataOutcomes :
        LET scrape == mmsi # ""
            stored == scrape /\ d # "raises"
        IN  store' = [rows |-> IF stored
                               THEN UpdateOrCreate(store.rows, store.ops, mmsi, d)
                               ELSE store.rows,
                      ops |-> store.ops + 1,
                      scrapes |-> IF scrape THEN store.scrapes + 1 ELSE store.scrapes,
                      last |-> [op |-> "post", mmsi |-> mmsi, force |-> FALSE,
                                data |-> d, stored |-> stored]]
    /\ UNCHANGED <<scrapeVars, trig>>

\* Command.handle: return early when the ship exists and --force is not given,
\* else scrape and store
CommandHandle ==
    /\ store.ops < MaxStores
    /\ \E mmsi \in {"123456789", "987654321"}, force \in BOOLEAN, d \in ShipDataOutcomes :
        LET existing_ship == \E r \in store.rows : r.mmsi = mmsi
            scrape == ~(existing_ship /\ ~force)
            stored == scrape /\ d # "raises"
        IN  store' = [rows |-> IF stored
                               THEN UpdateOrCreate(store.rows, store.ops, mmsi, d)
                               ELSE store.rows,
                      ops |-> store.ops + 1,
                      scrapes |-> IF scrape THEN store.scrapes + 1 ELSE store.scrapes,
                      last |-> [op |-> "command", mmsi |-> mmsi, force |-> force,
                                data |-> d, stored |-> stored]]
    /\ UNCHANGED <<scrapeVars, trig>>

-----------------------------------------------------------------------------
(* Specifications                                                          *)


Init ==
    /\ scraper \in {"MT", "VF"}
    /\ entry \in {"runner", "direct"}
    /\ env \in [mmsi : {None, Mmsi, QuotedMmsi}, imo : {None, Imo, QuotedImo}, key : {"unread"}, cid : {"unread"},
              creds : {"unread"}, ddvars : {"unread"},
              dd : {NotFetched}]
    /\ scraper = "MT" => env.imo = None
    /\ pc = IF entry = "runner" THEN "main" ELSE "construct"
    \* the record's 'mmsi': get_ship_details stores the argument as given,
    \* get_vessel_details stores str(mmsi).strip('"').strip()
    /\ rec = [EmptyRecord EXCEPT !["mmsi"] = IF scraper = "MT" THEN env.mmsi
                                            ELSE StripQuotes(env.mmsi)]
    /\ writer = NoWriter
    /\ flag = FALSE
    /\ nresp = 0
    /\ driver = "none"
    /\ logged_in = FALSE
    /\ navs = {}
    /\ lastThrew = FALSE
    /\ skipped = {}
    /\ cause = ""
    /\ events = <<>>
    /\ sinkOk = "unset"
    /\ exitCode = -1
    /\ trig = IdleTrigger
    /\ store = EmptyStore

Next ==
    \/ MTMain \/ MTConstruct \/ MTLoadPage \/ MTExtractShipName
    \/ MTNetworkResponse \/ MTNetworkTextBody \/ MTNetworkLogFails \/ MTTryDirectApiCalls
    \/ MTExtractFromAllText \/ MTExtractVesselDetails \/ MTExtractFromDetailSections
    \/ MTExtractFromDataAttributes \/ MTExtractPositionData \/ MTExtractFromPositionElements
    \/ MTExtractCoordinatesFromMap \/ MTExtractCoordinatesFromJs
    \/ MTExtractCoordinatesFromSource \/ MTInteractWithMap
    \/ MTExtractVoyageData \/ MTExtractFromVoyageElements
    \/ MTPageSourceFails \/ MTExtractFromHtml \/ MTSendToPosthog
    \/ Close \/ MTRunnerFetch \/ MTRunnerPush \/ MTRunnerOutput \/ RunnerExcept
    \/ VFMain \/ VFConstruct \/ VFOwnerLogin \/ VFLogin \/ VFCheckIdentifier
    \/ VFLoadPage
    \/ VFNetworkResponse \/ VFNetworkEnd \/ VFExtractFromJavascript
    \/ VFExtractFromPageElements \/ VFPageSourceFails \/ VFExtractFromHtml
    \/ VFCaptureScraped \/ VFSendToPosthog \/ VFHandler \/ VFRunnerSink

Spec == Init /\ [][Next]_vars

\* the triggers are called on their own, outside any scrape
InitTrigger ==
    /\ scraper = "none" /\ entry = "none"
    /\ env = [mmsi |-> None, imo |-> None, key |-> "unread", cid |-> "unread",
             creds |-> "unread", ddvars |-> "unread", dd |-> NotFetched]
    /\ pc = "off"
    /\ rec = EmptyRecord /\ writer = NoWriter /\ flag = FALSE /\ nresp = 0
    /\ driver = "none" /\ logged_in = FALSE /\ navs = {}
    /\ lastThrew = FALSE /\ skipped = {} /\ cause = "" /\ events = <<>>
    /\ sinkOk = "unset" /\ exitCode = -1
    /\ trig = IdleTrigger
    /\ store = EmptyStore

NextTrigger ==
    \/ DjangoTriggerScraper \/ MultiTriggerScraper \/ TriggerMarineTrafficScraper
    \/ TriggerAllFirst \/ TriggerAllSecond \/ MultiMainExit

SpecTrigger == InitTrigger /\ [][NextTrigger]_vars

\* the persistence layer is called on its own, outside any scrape of this model
NextStore == ShipDataViewPost \/ CommandHandle

SpecStore == InitTrigger /\ [][NextStore]_vars

-----------------------------------------------------------------------------
(* Properties                                                              *)

\* C1: first writer wins under the priority order: a field holding a non-null
\* value (0 and 0.0 included) is not changed by a step of an evidence class of
\* lower priority than the class that wrote it, in either scraper.
FirstWriterWins ==
    [][\A f \in Fields :
          (rec[f] # None /\ rec'[f] # rec[f]) => Rank(writer'[f]) <= Rank(writer[f])]_vars

\* C2: once the network-response extractor has yielded lat and lon (0 included),
\* no later step of another kind changes lat or lon.
NetworkCoordinatesKept ==
    [][(writer["lat"] = "net" /\ writer["lon"] = "net"
            /\ rec["lat"] # None /\ rec["lon"] # None)
        => \A f \in {"lat", "lon"} : rec'[f] = rec[f] \/ writer'[f] = "net"]_vars

\* C3: in every returned record lat is null or within [-90, 90] and lon is null
\* or within [-180, 180].
ReturnedCoordinatesInRange ==
    pc = "returned" =>
        /\ rec["lat"] = None \/ (IsNum(rec["lat"]) /\ InLatRange(rec["lat"]))
        /\ rec["lon"] = None \/ (IsNum(rec["lon"]) /\ InLonRange(rec["lon"]))

\* C4: a lat / lon accepted from a network-response payload is the payload value
\* divided by 1,000,000 when its magnitude exceeds 180 and the payload value
\* itself otherwise, in both scrapers.
NetworkMicroDegreesNormalized ==
    \A f \in {"lat", "lon"} :
        (writer[f] = "net" /\ rec[f] # None) =>
            \E p \in NetPayloads \cup VFNetPayloads :
                /\ p[f] # Absent
                /\ rec[f] = IF AbsGt180(p[f]) THEN DivMillion(p[f]) ELSE p[f]

\* C5: no text field ever holds "unknown", "n/a", "-", "" or "upgrade to unlock"
\* (compared case-insensitively), whichever extractor proposed it.
NoPlaceholderText ==
    \A f \in {"name", "type", "destination"} :
        ~(/\ IsStr(rec[f])
          /\ Lower(rec[f][2]) \in {"unknown", "n/a", "-", "", "upgrade to unlock"})

\* C6: an invocation given neither mmsi nor imo loads no page (vessel page or
\* login page) and runs no extractor.
NoIdentifierNoNavigation ==
    (env.mmsi = None /\ env.imo = None) =>
        navs = {} /\ writer = NoWriter

\* C7: a finished trigger call reports success exactly when the endpoint answered
\* with status 204; MarineTrafficScraperTrigger.trigger_scraper carries the body
\* of any other answer as its details; a timeout or request exception gives a
\* failure result and nothing is raised.
TriggerSuccessIffNoContent ==
    trig.phase = "done" =>
        /\ trig.success <=> (trig.post.kind = "response" /\ trig.post.status = 204)
        /\ (trig.fn = "django" /\ trig.post.kind = "response" /\ trig.post.status # 204)
               => trig.details = trig.post.body
        /\ trig.post.kind \in {"timeout", "error"} => ~trig.success
        /\ ~trig.raised

\* C7 witness: the dispatch endpoint answered 422 "bad mmsi" to the Django trigger
TriggerRejectedWithBody ==
    /\ trig.phase = "done" /\ trig.fn = "django"
    /\ trig.post.kind = "response" /\ trig.post.status = 422 /\ trig.post.body = "bad mmsi"
    /\ ~trig.success /\ trig.details = "bad mmsi"

\* C8: an exception inside one extractor leaves out no extractor scheduled after
\* it, and the scrape does not raise because of it.
ExtractorFailureSkipsNothing ==
    /\ skipped = {}
    /\ lastThrew => pc \notin {"handler", "fail", "raised"}

\* C9: a failing analytics call never makes the extraction raise or the runner
\* exit non-zero.
SinkFailureNeverFailsExtraction ==
    cause # "sink"

\* C10: the runner exits 0 exactly when the extraction succeeded and the record
\* has both lat and lon.
ExitZeroIffCoordinates ==
    pc = "exited" =>
        (exitCode = 0 <=> (cause = "" /\ rec["lat"] # None /\ rec["lon"] # None))

\* C11: secondary-API data is forwarded to the analytics sink only when the
\* response holds a nested detail object or the triple (mmsi, latitude,
\* longitude), and the document forwarded has all three.
SecondaryDataForwardedOnlyIfValid ==
    (\E i \in DOMAIN events : events[i] = DdEvent) =>
        /\ env.dd.status = 200
        /\ \/ env.dd.detail = "object"
           \/ \A k \in {"mmsi", "latitude", "longitude"} :
                  env.dd.top[k] \notin {Absent, None, Num(0, 0)}
        /\ LET d == IF env.dd.detail = "object" THEN env.dd.inner ELSE env.dd.top
           IN  \A k \in {"mmsi", "latitude", "longitude"} :
                   d[k] \notin {Absent, None, Num(0, 0)}

\* C11 witness: a response nesting a detail object was fetched and forwarded
SecondaryDetailForwarded ==
    /\ pc = "exited" /\ exitCode = 0
    /\ env.dd.detail = "object" /\ env.dd.inner = FullDoc
    /\ events = <<"local_comparison", DdEvent>>

\* C12: scenario A: once the network response {"lat": 37.5, "lon": -122.4,
\* "speed": 12.3} has been taken into the record, no later step (DOM text
\* included) changes lat, lon or speed, so the record is returned with them.
ScenarioANetworkPositionKept ==
    [][(/\ rec["lat"] = Num(37, 500000) /\ writer["lat"] = "net"
        /\ rec["lon"] = Num(0 - 122, 0 - 400000) /\ writer["lon"] = "net"
        /\ rec["speed"] = Num(12, 300000) /\ writer["speed"] = "net")
       => /\ rec'["lat"] = rec["lat"] /\ rec'["lon"] = rec["lon"]
          /\ rec'["speed"] = rec["speed"]
          /\ writer'["lat"] = "net" /\ writer'["lon"] = "net"]_vars

\* C12 witness: a record returned with the scenario's position after the
\* DOM-text extractor ran and wrote another field
ScenarioAReturned ==
    /\ pc = "returned" /\ scraper = "VF"
    /\ rec["lat"] = Num(37, 500000) /\ rec["lon"] = Num(0 - 122, 0 - 400000)
    /\ rec["speed"] = Num(12, 300000)
    /\ writer["lat"] = "net" /\ writer["destination"] = "text"

\* C13: scenario D: a destination taken from the visible text is never "Upgrade
\* to unlock" (in any letter case) in a returned record: that line leaves the
\* destination null.
ScenarioDUpgradeLineRejected ==
    (pc = "returned" /\ writer["destination"] = "text" /\ IsStr(rec["destination"]))
        => Lower(rec["destination"][2]) # "upgrade to unlock"

\* C14: the phases are passed in order and FAILED is terminal: a page is loaded
\* only in the loading phase (login, vessel page), never once extraction has
\* begun, and no sink call is made once the invocation has failed.
PhasesInOrderFailedTerminal ==
    [][ /\ (navs' # navs => pc \in {"login", "load"})
        /\ (events' # events => cause = "") ]_vars

\* C15: an invocation that acquired a browser session has released it (driver
\* quit) by the time it has returned or raised, on every path.
SessionReleasedOnEveryPath ==
    pc \in {"returned", "raised", "exited"} => driver # "open"

WritesOnlyUnsetFields ==
    [][\A f \in Fields : rec[f] # None => rec'[f] = rec[f]]_vars

\* C18: the network-response extractor runs first: no step taken before the
\* network stage of a scrape writes a record field.
NetworkExtractorRunsFirst ==
    [][(pc \in {"main", "construct", "login", "ids", "load", "name"}) => rec' = rec]_vars

\* C19: a failing extractor contributes nothing: a step of an extractor that
\* ends with an exception leaves the record as it was when the step began.
FailingExtractorContributesNothing ==
    [][lastThrew' => rec' = rec]_vars

-----------------------------------------------------------------------------
(* Identifier fields of the record and of the property bags                *)

\* the record's 'mmsi'
RecordMmsi == rec["mmsi"]

\* the record's 'imo': None in get_ship_details, the stripped argument in
\* get_vessel_details
RecordImo == IF scraper = "MT" THEN None ELSE StripQuotes(env.imo)

\* the "mmsi" property sent with an event: the scraper's own send_to_posthog
\* sends str(ship_data.get("mmsi", "")), the runners' send_to_posthog strip the
\* quotes first; the VesselFinder capture events carry no mmsi property
BagMmsi(event) ==
    CASE event = "marine_traffic_scrape" -> RecordMmsi
      [] event = "local_comparison" -> StripQuotes(RecordMmsi)
      [] event = DdEvent -> StripQuotes(Get(DdDetail(FetchDatadockedData(env.dd)).mmsi))
      [] OTHER -> None

\* C20: the mmsi and imo of the final record and the mmsi of every property bag
\* sent to the analytics sink carry no wrapping double quotes: an identifier
\* delivered quoted comes out with the quotes removed.
IdentifiersNeverQuoted ==
    /\ pc = "returned" =>
          /\ StripQuotes(RecordMmsi) = RecordMmsi
          /\ StripQuotes(RecordImo) = RecordImo
    /\ \A i \in DOMAIN events : StripQuotes(BagMmsi(events[i])) = BagMmsi(events[i])

\* C21: every remote dispatch call completes with a success or a failure result
\* within a bounded time, also when the endpoint never answers: no call stays
\* blocked inside its request.
DispatchCallCompletes ==
    trig.phase # "blocked"

\* C22: the network-response extractor finds a coordinate key at any nesting
\* depth: for every captured document, a field lat or lon that is unset when the
\* document is handled and whose first occurrence in visiting order (keys of an
\* object before its nested objects) holds a non-zero number is set afterwards.
NestedCoordinatesFound ==
    pc = "net" =>
        \A doc \in NetDocuments(IF scraper = "MT" THEN NetPayloads ELSE VFNetPayloads) :
            LET after == IF scraper = "MT"
                         THEN ExtractCoordinatesFromApiResponse(St, doc, "net")
                         ELSE ParseApiResponseDeep(St, doc, "net")
                Below(d, f) == IF d.nested = <<>> THEN Absent
                               ELSE IF d.nested[1].keys[f] # Absent THEN d.nested[1].keys[f]
                               ELSE IF d.nested[1].nested = <<>> THEN Absent
                               ELSE d.nested[1].nested[1].keys[f]
                First(f) == IF doc.keys[f] # Absent THEN doc.keys[f] ELSE Below(doc, f)
            IN  \A f \in {"lat", "lon"} :
                    (rec[f] = None /\ First(f) # Absent /\ Truthy(First(f))
                        /\ ~ParseApiResponseRaises(St, doc.keys))
                    => after.r[f] # None

\* C23: persistence is an upsert keyed on mmsi: the table never holds two rows
\* with the same mmsi; a store for an mmsi already present updates that row (same
\* key, new data) and adds none; the command without --force on an existing mmsi
\* scrapes nothing and leaves the table as it is.
UpsertKeyedOnMmsi ==
    [][ LET last == store'.last
            existed == \E r \in store.rows : r.mmsi = last.mmsi
        IN  /\ \A r1, r2 \in store'.rows : r1.mmsi = r2.mmsi => r1 = r2
            /\ (last.stored /\ existed) =>
                  /\ Cardinality(store'.rows) = Cardinality(store.rows)
                  /\ \E r \in store.rows :
                        /\ r.mmsi = last.mmsi
                        /\ [r EXCEPT !.data = last.data] \in store'.rows
            /\ (last.stored /\ ~existed) =>
                  Cardinality(store'.rows) = Cardinality(store.rows) + 1
            /\ (last.op = "command" /\ ~last.force /\ existed) =>
                  /\ store'.rows = store.rows
                  /\ store'.scrapes = store.scrapes
      ]_vars

\* one ship stored, stored again with a new reading, then the command run
\* without --force
UpsertThenCommandSkipped ==
    /\ store.ops = 3 /\ store.scrapes = 2
    /\ store.last.op = "command" /\ ~store.last.force
    /\ store.rows = {[id |-> 0, mmsi |-> "123456789", data |-> "second reading"]}

\* C24: trigger_scraper sends no request and returns False when the provider,
\* lower-cased, is neither 'marinetraffic' nor 'vesselfinder', when it is
\* 'marinetraffic' without mmsi, or when it is 'vesselfinder' with neither mmsi
\* nor imo; in every other case it sends exactly one POST whose event_type is the
\* provider's.
InvalidRequestSendsNothing ==
    trig.fn = "multi" =>
        LET p == trig.message
            valid == \/ p = "marinetraffic" /\ trig.mmsi
                     \/ p = "vesselfinder" /\ (trig.mmsi \/ trig.imo)
        IN  /\ ~valid => /\ trig.phase = "done" /\ ~trig.success
                         /\ trig.post = NoRequest /\ trig.sent = <<>>
            /\ valid => /\ trig.post # NoRequest
                        /\ trig.sent = <<IF p = "marinetraffic"
                                         THEN "scrape-marine-traffic"
                                         ELSE "scrape-vesselfinder">>

\* provider 'VesselFinder' with an imo only: one dispatch, accepted
VesselFinderDispatchedByImo ==
    /\ trig.fn = "multi" /\ trig.phase = "done" /\ trig.success
    /\ trig.message = "vesselfinder" /\ ~trig.mmsi /\ trig.imo
    /\ trig.sent = <<"scrape-vesselfinder">>

\* C25: in get_ship_details the page extractors (visible text, DOM elements, DOM
\* attributes, JavaScript globals) run exactly when the network phase ends with
\* the flag _coordinates_from_api unset, else only the embedded-JSON extractor
\* runs; and the flag is set only by an API response that supplied a lat or a
\* lon, also when it supplied just one of the two.
PageExtractorsIffNoApiCoordinate ==
    [][ (scraper = "MT" /\ pc = "net") =>
          LET supplied == {d \in {doc.keys : doc \in NetDocuments(NetPayloads)} \cup ApiPayloads :
                              d.lat # Absent \/ d.lon # Absent}
          IN  /\ (pc' \in {"alltext", "html"}) => (pc' = "alltext" <=> ~flag')
              /\ (~flag /\ flag') =>
                    \E d \in supplied : rec' = ApiResponse(St, d, "net").r
      ]_vars

\* C26: one VesselFinder runner invocation forwards the vessel record to the
\* analytics sink as a 'local_comparison' event at most once: once when a
\* comparison_id is given, the API key is configured and the sink accepts the
\* event, never without a comparison_id or without the key.
LocalComparisonSentOnce ==
    (scraper = "VF" /\ entry = "runner" /\ pc = "exited") =>
        LET sent == Cardinality({i \in 1..Len(events) : events[i] = "local_comparison"})
            configured == env.cid = "yes" /\ env.key = "yes"
        IN  /\ sent <= 1
            /\ ~configured => sent = 0
            /\ (configured /\ sinkOk = "true") => sent = 1

ConfigurationCheckedBeforeSession ==
    (entry = "runner" /\ pc # "main") =>
        LET missing == IF scraper = "MT"
                       THEN env.key = "no" \/ env.ddvars = "no"
                       ELSE (env.mmsi = None /\ env.imo = None) \/ env.creds = "no"
        IN  missing => /\ pc = "exited" /\ exitCode = 1
                       /\ driver = "none" /\ navs = {}
                       /\ writer = NoWriter /\ events = <<>>

\* the VesselFinder runner called with an imo and without the credentials
RunnerExitedWithoutCredentials ==
    /\ scraper = "VF" /\ entry = "runner" /\ env.imo = Imo /\ env.creds = "no"
    /\ pc = "exited" /\ exitCode = 1 /\ driver = "none"

\* C29: trigger_all_providers attempts both providers, MarineTraffic first and
\* VesselFinder second, whatever the first call returned; its result has exactly
\* the keys 'marinetraffic' and 'vesselfinder' with boolean values; main exits
\* non-zero exactly when at least one of the two is False.
BothProvidersAttemptedInOrder ==
    trig.fn = "all" =>
        /\ trig.phase = "second" =>
              /\ Len(trig.results) = 1
              /\ trig.results[1][1] = "marinetraffic" /\ trig.results[1][2] \in BOOLEAN
        /\ trig.phase \in {"summary", "exited"} =>
              /\ Len(trig.results) = 2
              /\ trig.results[1][1] = "marinetraffic" /\ trig.results[1][2] \in BOOLEAN
              /\ trig.results[2][1] = "vesselfinder" /\ trig.results[2][2] \in BOOLEAN
              /\ trig.sent = IF trig.mmsi
                             THEN <<"scrape-marine-traffic", "scrape-vesselfinder">>
                             ELSE <<>>
        /\ trig.phase = "exited" =>
              (trig.exit # 0 <=> (~trig.results[1][2] \/ ~trig.results[2][2]))

\* the first dispatch was refused, the second accepted, main exited with status 1
SecondAttemptedAfterFirstFailed ==
    /\ trig.fn = "all" /\ trig.phase = "exited" /\ trig.exit = 1
    /\ trig.results = <<<<"marinetraffic", FALSE>>, <<"vesselfinder", TRUE>>>>
    /\ trig.sent = <<"scrape-marine-traffic", "scrape-vesselfinder">>

\* C30: the key set of the MarineTraffic record is fixed: a record returned by
\* get_ship_details has the fields it was initialized with, the flag
\* _coordinates_from_api is not in it, and its mmsi is the one the caller gave.
ReturnedRecordKeepsKeysAndMmsi ==
    (scraper = "MT" /\ pc = "returned") =>
        /\ DOMAIN rec = Fields
        /\ ~flag
        /\ rec["mmsi"] = env.mmsi

=============================================================================
